---- MODULE Spec2Model ----
(***************************************************************************)
(* Model of OpenAIService (services/openai_service.py): the batch loop     *)
(* generate_batch_summaries, generate_company_summary, the retry loop of   *)
(* _make_api_call and the @sleep_and_retry / @limits(calls=60, period=60)  *)
(* decorators in front of it.                                              *)
(*                                                                         *)
(* Time is a clock in whole seconds; only the sleeps and the start-up of   *)
(* the process take time.                                                  *)
(***************************************************************************)
EXTENDS Integers, Sequences, FiniteSets, TLC

\* ------------------------------------------------------------------ bounds
MaxCompanies == 2
MaxRetries == 2
MaxFaults == 2

\* a text is made of at most MaxPieces pieces
MaxPieces == 3

\* ------------------------------------------------------- program constants
CALLS == 60
PERIOD == 60
RateLimitBackoff == 60
ErrorBackoff == 5
CourtesyDelay == 1
MinLength == 100
MinSections == 2
IndustryLimit == 100
FieldLimit == 200

\* The long batch is two calls longer than one window's budget.
BurstLen == CALLS + 2

\* -------------------------------------------------------------------- text
\* A text is a string.  None is kept apart from every text by a value that
\* no text equals.
NoneVal == "<None>"

\* time.strftime('%Y-%m-%d %H:%M:%S'): the value is not modelled
Timestamp == "%Y-%m-%d %H:%M:%S"

Whitespace == {" ", "\n", "\t", "\r"}

\* s[k - 1], the k-th character
Char(s, k) == SubSeq(s, k, k)

MinOf(S) == CHOOSE x \in S : \A y \in S : x <= y

\* str.strip(): drop the leading and the trailing whitespace.
Strip(s) ==
    LET kept(k) == Char(s, k) \notin Whitespace
    IN  IF \A k \in 1..Len(s) : ~kept(k)
        THEN ""
        ELSE LET lead == CHOOSE n \in 0..(Len(s) - 1) :
                             kept(n + 1) /\ \A j \in 1..n : ~kept(j)
                 trail == CHOOSE n \in 0..(Len(s) - 1) :
                              kept(Len(s) - n) /\ \A j \in 1..n : ~kept(Len(s) + 1 - j)
             IN  SubSeq(s, lead + 1, Len(s) - trail)

\* str.find, 1-based: the first position of sub in s, 0 when there is none
Find(s, sub) ==
    LET at(k) == SubSeq(s, k, k + Len(sub) - 1) = sub
        last == Len(s) - Len(sub) + 1
    IN  IF \E k \in 1..last : at(k)
        THEN CHOOSE k \in 1..last : at(k) /\ \A j \in 1..(k - 1) : ~at(j)
        ELSE 0

\* `sub in s`
Contains(s, sub) ==
    \E k \in 1..(Len(s) - Len(sub) + 1) : SubSeq(s, k, k + Len(sub) - 1) = sub

\* str.split(sep): the list of the parts of s between the occurrences of sep
RECURSIVE Split(_, _)
Split(s, sep) ==
    LET k == Find(s, sep)
    IN  IF k = 0
        THEN <<s>>
        ELSE <<SubSeq(s, 1, k - 1)>> \o Split(SubSeq(s, k + Len(sep), Len(s)), sep)

\* Mutant: no truncation.
Slice_Whole(s, n) == s

\* s[:n]
Slice(s, n) == SubSeq(s, 1, IF Len(s) < n THEN Len(s) ELSE n)

LowerCase == "abcdefghijklmnopqrstuvwxyz"
UpperCase == "ABCDEFGHIJKLMNOPQRSTUVWXYZ"

\* str.upper()
RECURSIVE Upper(_)
Upper(s) ==
    IF Len(s) = 0 THEN ""
    ELSE IF Len(s) = 1
         THEN LET k == Find(LowerCase, s) IN IF k = 0 THEN s ELSE Char(UpperCase, k)
         ELSE LET h == Len(s) \div 2
              IN  Upper(SubSeq(s, 1, h)) \o Upper(SubSeq(s, h + 1, Len(s)))

required_sections ==
    <<"COMPANY OVERVIEW", "INDUSTRY & SECTOR", "KEY BUSINESS ACTIVITIES">>

\* Mutant: the length is taken with the surrounding whitespace.
validate_response_Unstripped(response_text) ==
    IF \/ response_text = NoneVal
       \/ response_text = ""
       \/ Len(response_text) < MinLength
    THEN FALSE
    ELSE Cardinality({k \in 1..Len(required_sections) :
                          Contains(response_text, required_sections[k])})
             >= MinSections

\* the parameter `response` of the code (the name is a variable's below)
validate_response(response_text) ==
    IF \/ response_text = NoneVal
       \/ response_text = ""
       \/ Len(Strip(response_text)) < MinLength
    THEN FALSE
    ELSE LET sections_found ==
                 Cardinality({k \in 1..Len(required_sections) :
                                  Contains(response_text, required_sections[k])})
         IN  sections_found >= MinSections

\* ------------------------------------- GoogleSheetsService: the extractors
NotSpecified == "Not specified"

\* `marker in summary_text` raises TypeError when summary_text is None
ExtractionRaises(summary_text) == summary_text = NoneVal

\* Mutant: the level words are looked for in all that follows the marker.
extract_confidence_AnyLine(summary_text) ==
    IF Contains(summary_text, "DATA CONFIDENCE:")
    THEN LET confidence_section == Split(summary_text, "DATA CONFIDENCE:")[2]
         IN  IF Contains(Upper(confidence_section), "HIGH") THEN "HIGH"
             ELSE IF Contains(Upper(confidence_section), "MEDIUM") THEN "MEDIUM"
             ELSE IF Contains(Upper(confidence_section), "LOW") THEN "LOW"
             ELSE NotSpecified
    ELSE NotSpecified

extract_confidence(summary_text) ==
    IF Contains(summary_text, "DATA CONFIDENCE:")
    THEN LET confidence_section ==
                 Split(Split(summary_text, "DATA CONFIDENCE:")[2], "\n")[1]
         IN  IF Contains(Upper(confidence_section), "HIGH") THEN "HIGH"
             ELSE IF Contains(Upper(confidence_section), "MEDIUM") THEN "MEDIUM"
             ELSE IF Contains(Upper(confidence_section), "LOW") THEN "LOW"
             ELSE NotSpecified
    ELSE NotSpecified

\* Mutant: the first line of the text, whether the marker is there or not.
extract_industry_FirstLine(summary_text) ==
    Slice(Strip(Split(summary_text, "\n")[1]), IndustryLimit)

extract_industry(summary_text) ==
    IF Contains(summary_text, "INDUSTRY & SECTOR:")
    THEN LET industry_section ==
                 Split(Split(summary_text, "INDUSTRY & SECTOR:")[2], "\n")[1]
         IN  Slice(Strip(industry_section), IndustryLimit)
    ELSE NotSpecified

\* Mutant: the section is not cut at the stop.
SectionUpTo_NoStop(summary_text, marker, stop) == Split(summary_text, marker)[2]

\* the shape shared by _extract_key_activities, _extract_target_market and
\* _extract_business_model: the part after marker, cut at stop if stop is in it
SectionUpTo(summary_text, marker, stop) ==
    LET section == Split(summary_text, marker)[2]
    IN  IF Contains(section, stop) THEN Split(section, stop)[1] ELSE section

extract_key_activities(summary_text) ==
    IF Contains(summary_text, "KEY BUSINESS ACTIVITIES:")
    THEN Slice(Strip(SectionUpTo(summary_text, "KEY BUSINESS ACTIVITIES:",
                                 "TARGET MARKET:")), FieldLimit)
    ELSE NotSpecified

extract_target_market(summary_text) ==
    IF Contains(summary_text, "TARGET MARKET:")
    THEN Slice(Strip(SectionUpTo(summary_text, "TARGET MARKET:",
                                 "BUSINESS MODEL:")), FieldLimit)
    ELSE NotSpecified

extract_business_model(summary_text) ==
    IF Contains(summary_text, "BUSINESS MODEL:")
    THEN Slice(Strip(SectionUpTo(summary_text, "BUSINESS MODEL:",
                                 "KEY DIFFERENTIATORS:")), FieldLimit)
    ELSE NotSpecified

\* ------------------------------------------------------------- environment
\* The k-th company of a batch; from the third on, names repeat.
NameAt(k) == IF k % 2 = 1 THEN "Acme Corp" ELSE "Globex"

\* a complete answer
FullText ==
    "COMPANY OVERVIEW: Acme\n" \o
    "INDUSTRY & SECTOR: Software\n" \o
    "KEY BUSINESS ACTIVITIES: Builds widgets\n" \o
    "DATA CONFIDENCE: High"

\* an answer of 50 characters
FiftyText == "Acme Corp is a company that makes widgets for SMBs"

\* an answer of 101 characters, 99 of them between the surrounding whitespace
PaddedText == " COMPANY OVERVIEW: Acme Corp makes widgets for SMBs and sells them. INDUSTRY & SECTOR: Software as x\n"

\* message.content values the provider may answer with
Contents == {FullText, FiftyText, PaddedText}

\* ---- texts for the validator and the extractors
X50 == "xxxxxxxxxxxxxxxxxxxxxxxxxxxxxxxxxxxxxxxxxxxxxxxxxx"

\* a word of 210 characters
LongWord == X50 \o X50 \o X50 \o X50 \o "0123456789"

\* what a text is made of: the markers, whitespace, level words, a long word
Pieces ==
    {"COMPANY OVERVIEW", "INDUSTRY & SECTOR:", "KEY BUSINESS ACTIVITIES:",
     "TARGET MARKET:", "BUSINESS MODEL:", "KEY DIFFERENTIATORS:",
     "DATA CONFIDENCE:", " ", "\n", " High", "medium-low", LongWord}

RECURSIVE Join(_)
Join(parts) == IF parts = <<>> THEN "" ELSE Head(parts) \o Join(Tail(parts))

PieceTexts == {Join(parts) : parts \in UNION {[1..n -> Pieces] : n \in 0..MaxPieces}}

\* 99 characters with two of the markers, and one character more
Text99 == Strip(PaddedText)
Text100 == Text99 \o "y"

\* 100 characters and more with the markers in lower case
LowerCaseText ==
    "company overview: Acme Corp. industry & sector: Software. " \o
    "key business activities: Builds widgets." \o X50

\* the sections in the order of the prompt
SectionsText ==
    "INDUSTRY & SECTOR: Software\n" \o
    "KEY BUSINESS ACTIVITIES: Builds widgets\n" \o
    "TARGET MARKET: SMBs\n" \o
    "BUSINESS MODEL: SaaS\n"

\* a level word on the marker's line, another on the next line
LowText == "Summary\nDATA CONFIDENCE: rather Low \nHIGH growth"

SampleTexts ==
    {FullText, FiftyText, PaddedText, Text99, Text100, LowerCaseText,
     SectionsText, LowText}

Texts == PieceTexts \cup SampleTexts

\* exceptions of one provider attempt, by the except clause that takes them
ProviderErrors == {"RateLimitError", "APIError", "Exception"}

\* str(e)
Msg(e) ==
    CASE e = "RateLimitError" -> "rate limit reached"
      [] e = "APIError" -> "api error"
      [] e = "Exception" -> "unexpected error"
      [] e = "FileNotFoundError" -> "No such file or directory"
      [] e = "RateLimitException" -> "too many calls"
      [] e = "CallbackError" -> "callback failed"
      [] e = "TypeError" -> "argument of type 'NoneType' is not iterable"
      [] e = "APIError(sheets)" -> "sheets api error"
      [] e = "WorksheetNotFound" -> "worksheet not found"
      [] e = "TypeError(None)" -> "'NoneType' object is not iterable"
      [] OTHER -> ""

VARIABLES
    company_names,      \* argument of generate_batch_summaries
    progress_callback,  \* "none"; "given": may return or raise; "raises"
    max_retries,        \* self.max_retries
    environment,        \* "any": every outcome; "steady": no failure, FullText
    pc,                 \* position of the single thread
    idx,                \* 1-based index of the company in hand (i + 1)
    summaries,          \* the list generate_batch_summaries builds
    summary,            \* value generate_company_summary returned
    attempt,            \* loop variable of _make_api_call
    response,           \* <<>> or <<value returned by _make_api_call>>
    exc,                \* exception raised and not yet disposed of by a retry
    sleep_for,          \* seconds of the pending time.sleep
    now,                \* clock
    last_reset,         \* RateLimitDecorator.last_reset
    num_calls,          \* RateLimitDecorator.num_calls
    calllog,            \* history: events of the company's _make_api_call
    faults,             \* failures the environment has injected so far
    admitted,           \* history: clock at each admission of the last PERIOD s
    origin,             \* history: where each entry of summaries came from
    rows_to_add,        \* write_summaries: the rows built so far
    worksheet,          \* the rows of the output worksheet
    row_idx,            \* write_summaries: 1-based index of the result in hand
    input_text,         \* a text handed to the validator and the extractors
    tpc,                \* which of them is applied next
    verdict,            \* what _validate_response returned for input_text
    fields,             \* what the extractors returned for input_text
    events,             \* history: the events of the company in hand
    entry,              \* "main": main() runs the stages; "stage": a stage
                        \* is used on its own
    rate_limit,         \* self.rate_limit
    workflow_status,    \* workflow_results['status'] of main
    main_return,        \* what main() returned
    worksheet_name,     \* OutputPipeline.worksheet_name
    custom,             \* the rows of the worksheet titled CustomName, or
                        \* NoWorksheet
    output_url          \* what OutputPipeline.run returned

\* the batch: OpenAIService and its limiter
batchvars ==
    <<company_names, progress_callback, max_retries, environment, faults, pc, idx,
      summaries, summary, attempt, response, exc, sleep_for, now, last_reset,
      num_calls, calllog, admitted, origin, events>>

\* the batch but for the position of the thread
batchvars_but_pc ==
    <<company_names, progress_callback, max_retries, environment, faults, idx,
      summaries, summary, attempt, response, exc, sleep_for, now, last_reset,
      num_calls, calllog, admitted, origin, events>>

\* the output stage: GoogleSheetsService
outvars == <<rows_to_add, worksheet, row_idx>>

\* one text under the validator and the extractors
textvars == <<input_text, tpc, verdict, fields>>

\* main() and the configuration it runs under
mainvars == <<entry, rate_limit, workflow_status, main_return>>

\* the output stage: which worksheet, and the URL handed back
sheetvars == <<worksheet_name, custom, output_url>>

vars == <<batchvars, outvars, textvars, mainvars, sheetvars>>

NoSummary == [company_name |-> "", summary |-> "", status |-> "",
              timestamp |-> Timestamp, error |-> NoneVal]

\* main() hands its progress_callback to the generate stage; a batch without
\* a callback is the generate stage used on its own.  The configured cap is
\* the limiter's own figure here.
InitFree ==
    /\ company_names \in {[k \in 1..n |-> NameAt(k)] : n \in 0..MaxCompanies}
    /\ progress_callback \in {"none", "given"}
    /\ entry = IF progress_callback = "given" THEN "main" ELSE "stage"
    /\ max_retries \in -1..MaxRetries
    /\ rate_limit = CALLS
    /\ environment = "any"

\* The long batch runs under a configured cap of CALLS or of half of it.
InitBurst ==
    /\ company_names = [k \in 1..BurstLen |-> NameAt(k)]
    /\ progress_callback = "raises"
    /\ entry = "stage"
    /\ max_retries = 1
    /\ rate_limit \in {CALLS, CALLS \div 2}
    /\ environment = "steady"

\* main() starts with the input stage, a stage on its own with the batch
InitBatch ==
    /\ pc = IF entry = "main" THEN "input" ELSE "idle"
    /\ events = <<>>
    /\ idx = 0
    /\ summaries = <<>>
    /\ summary = NoSummary
    /\ attempt = 0
    /\ response = <<>>
    /\ exc = "none"
    /\ sleep_for = 0
    /\ now = 0
    /\ last_reset = 0
    /\ num_calls = 0
    /\ faults = 0
    /\ calllog = <<>>
    /\ admitted = <<>>
    /\ origin = <<>>

\* what an earlier run left in the output worksheet
StaleRows == <<<<"Company Name">>, <<"Initech">>>>

InitOutput ==
    /\ rows_to_add = <<>>
    /\ worksheet = StaleRows
    /\ row_idx = 0

\* no OutputPipeline is built yet; whether the spreadsheet holds a worksheet
\* titled CustomName is settled when the output stage first asks for it
InitSheets ==
    /\ worksheet_name = NoneVal
    /\ custom = <<>>
    /\ output_url = NoneVal

NoReturn == [kind |-> "none", code |-> 0]

\* workflow_results = {'status': 'started', ...}
InitMain ==
    /\ workflow_status = "started"
    /\ main_return = NoReturn

NoFields ==
    [confidence |-> "", industry |-> "", key_activities |-> "",
     target_market |-> "", business_model |-> ""]

\* no text is under the validator and the extractors
InitNoText ==
    /\ input_text = ""
    /\ tpc = "off"
    /\ verdict = FALSE
    /\ fields = NoFields

Init ==
    /\ InitFree \/ InitBurst
    /\ InitBatch
    /\ InitOutput
    /\ InitSheets
    /\ InitMain
    /\ InitNoText

\* ---------------------------------------------------- environment choices
\* What one chat.completions.create request may do.  In the long batch the
\* provider always answers FullText and the template is always readable.
ProviderContents == IF environment = "any" THEN Contents ELSE {FullText}
ProviderFailures == IF environment = "any" THEN ProviderErrors ELSE {}
PromptFailures == IF environment = "any" THEN {"FileNotFoundError"} ELSE {}

\* In a short batch the environment injects at most MaxFaults failures
\* (unreadable template, failing request, raising callback).
MayFail == environment = "any" /\ faults < MaxFaults

\* Seconds between the import of the module, which builds the limiter, and
\* the start of the batch (configuration, input stage).
StartupTimes == {0, 1}

Event(ev, what, secs) == [ev |-> ev, what |-> what, secs |-> secs]

\* an event of the company in hand, with the arguments of the call if any
Did(ev, args) == [ev |-> ev, idx |-> idx, args |-> args]

\* progress_callback(i + 1, total_companies, company_name)
CallbackArgs == <<idx, Len(company_names), company_names[idx]>>

\* ------------------------------------------------------------ result dicts
SuccessResult(name, text) ==
    [company_name |-> name, summary |-> text, status |-> "success",
     timestamp |-> Timestamp, error |-> NoneVal]

\* Mutant: a warning carries no error text.
WarningResult_NoError(name, text) ==
    [company_name |-> name, summary |-> text, status |-> "warning",
     timestamp |-> Timestamp, error |-> NoneVal]

WarningResult(name, text) ==
    [company_name |-> name, summary |-> text, status |-> "warning",
     timestamp |-> Timestamp, error |-> "Response quality below threshold"]

\* Mutant: the summary text leaves the message out.
ErrorResult_NoMessage(name, e) ==
    [company_name |-> name,
     summary |-> "Error generating summary: ",
     status |-> "error", timestamp |-> Timestamp, error |-> Msg(e)]

ErrorResult(name, e) ==
    [company_name |-> name,
     summary |-> "Error generating summary: " \o Msg(e),
     status |-> "error", timestamp |-> Timestamp, error |-> Msg(e)]

CriticalResult(name, e) ==
    [company_name |-> name,
     summary |-> "Critical error generating summary: " \o Msg(e),
     status |-> "critical_error", timestamp |-> Timestamp, error |-> Msg(e)]

\* ----------------------------------------------- generate_batch_summaries
BatchStart ==
    /\ pc = "idle"
    /\ now' \in StartupTimes
    /\ summaries' = <<>>
    /\ idx' = 1
    /\ pc' = "loop"
    /\ UNCHANGED <<textvars, events, mainvars, sheetvars, outvars,
                   company_names, progress_callback, max_retries,
                   environment, faults,
                   summary, attempt, response, exc, sleep_for, last_reset,
                   num_calls, calllog, admitted, origin>>

\* for i, company_name in enumerate(company_names): the next company
BatchNext ==
    /\ pc = "loop"
    /\ idx <= Len(company_names)
    /\ pc' = "prompt"
    /\ response' = <<>>
    /\ exc' = "none"
    /\ events' = <<>>
    /\ UNCHANGED <<textvars, mainvars, sheetvars, outvars,
                   company_names, progress_callback, max_retries,
                   environment, faults,
                   idx, summaries, summary, attempt, sleep_for, now,
                   last_reset, num_calls, calllog, admitted, origin>>

\* the loop is exhausted: return summaries
BatchReturn ==
    /\ pc = "loop"
    /\ idx > Len(company_names)
    /\ pc' = "returned"
    /\ UNCHANGED <<textvars, events, mainvars, sheetvars, outvars,
                   company_names, progress_callback, max_retries,
                   environment, faults,
                   idx, summaries, summary, attempt, response, exc, sleep_for,
                   now, last_reset, num_calls, calllog, admitted, origin>>

\* summaries.append(summary), then the callback if one was given
BatchAppend ==
    /\ pc = "append"
    /\ summaries' = Append(summaries, summary)
    /\ origin' = Append(origin, [idx |-> idx, by |-> "generate_company_summary",
                                 ret |-> response, exc |-> exc])
    /\ calllog' = <<>>
    /\ pc' = IF progress_callback # "none" THEN "callback" ELSE "sleep"
    /\ events' = Append(events, Did("append", <<>>))
    /\ UNCHANGED <<textvars, mainvars, sheetvars, outvars,
                   company_names, progress_callback, max_retries,
                   environment, faults,
                   idx, summary, attempt, response, exc, sleep_for, now,
                   last_reset, num_calls, admitted>>

CallbackReturns ==
    /\ pc = "callback"
    /\ progress_callback = "given"
    /\ pc' = "sleep"
    /\ events' = Append(events, Did("callback", CallbackArgs))
    /\ UNCHANGED <<textvars, mainvars, sheetvars, outvars,
                   company_names, progress_callback, max_retries,
                   environment, faults,
                   idx, summaries, summary, attempt, response, exc, sleep_for,
                   now, last_reset, num_calls, calllog, admitted, origin>>

CallbackRaises ==
    /\ pc = "callback"
    /\ progress_callback = "raises" \/ (progress_callback = "given" /\ MayFail)
    /\ faults' = IF progress_callback = "given" THEN faults + 1 ELSE faults
    /\ exc' = "CallbackError"
    /\ pc' = "loop_except"
    /\ events' = Append(events, Did("callback", CallbackArgs))
    /\ UNCHANGED <<textvars, mainvars, sheetvars, outvars,
                   company_names, progress_callback, max_retries,
                   environment,
                   idx, summaries, summary, attempt, response, sleep_for, now,
                   last_reset, num_calls, calllog, admitted, origin>>

\* time.sleep(1), end of the loop body
BatchSleep ==
    /\ pc = "sleep"
    /\ now' = now + CourtesyDelay
    /\ idx' = idx + 1
    /\ pc' = "loop"
    /\ events' = Append(events, Did("delay", <<>>))
    /\ UNCHANGED <<textvars, mainvars, sheetvars, outvars,
                   company_names, progress_callback, max_retries,
                   environment, faults,
                   summaries, summary, attempt, response, exc, sleep_for,
                   last_reset, num_calls, calllog, admitted, origin>>

\* Mutant: the loop-level handler puts its result in the place of the last one.
BatchExcept_Replaces ==
    /\ pc = "loop_except"
    /\ summaries' = [summaries EXCEPT ![Len(summaries)] =
                        CriticalResult(company_names[idx], exc)]
    /\ origin' = [origin EXCEPT ![Len(origin)] =
                     [idx |-> idx, by |-> "generate_batch_summaries",
                      ret |-> <<>>, exc |-> exc]]
    /\ idx' = idx + 1
    /\ pc' = "loop"
    /\ events' = Append(events, Did("append", <<>>))
    /\ UNCHANGED <<textvars, mainvars, sheetvars, outvars,
                   company_names, progress_callback, max_retries,
                   environment, faults,
                   summary, attempt, response, exc, sleep_for, now, last_reset,
                   num_calls, calllog, admitted>>

\* except Exception as e: of the loop body
BatchExcept ==
    /\ pc = "loop_except"
    /\ summaries' = Append(summaries, CriticalResult(company_names[idx], exc))
    /\ origin' = Append(origin, [idx |-> idx, by |-> "generate_batch_summaries",
                                 ret |-> <<>>, exc |-> exc])
    /\ idx' = idx + 1
    /\ pc' = "loop"
    /\ events' = Append(events, Did("append", <<>>))
    /\ UNCHANGED <<textvars, mainvars, sheetvars, outvars,
                   company_names, progress_callback, max_retries,
                   environment, faults,
                   summary, attempt, response, exc, sleep_for, now, last_reset,
                   num_calls, calllog, admitted>>

\* ----------------------------------------------- generate_company_summary
\* STEP 1: _create_company_research_prompt
PromptBuilt ==
    /\ pc = "prompt"
    /\ pc' = "call"
    /\ events' = Append(events, Did("prompt", <<>>))
    /\ UNCHANGED <<textvars, mainvars, sheetvars, outvars,
                   company_names, progress_callback, max_retries,
                   environment, faults,
                   idx, summaries, summary, attempt, response, exc, sleep_for,
                   now, last_reset, num_calls, calllog, admitted, origin>>

PromptFails ==
    /\ pc = "prompt"
    /\ MayFail
    /\ faults' = faults + 1
    /\ \E e \in PromptFailures : exc' = e
    /\ pc' = "summary_except"
    /\ events' = Append(events, Did("prompt", <<>>))
    /\ UNCHANGED <<textvars, mainvars, sheetvars, outvars,
                   company_names, progress_callback, max_retries,
                   environment,
                   idx, summaries, summary, attempt, response, sleep_for, now,
                   last_reset, num_calls, calllog, admitted, origin>>

\* Mutant: the validator's verdict is ignored.
ValidatedResult_AlwaysSuccess(name, text) == SuccessResult(name, text)

\* STEP 3: validate, and the dict returned
ValidatedResult(name, text) ==
    IF validate_response(text)
    THEN SuccessResult(name, text)
    ELSE WarningResult(name, text)

SummaryValidate ==
    /\ pc = "validate"
    /\ summary' = ValidatedResult(company_names[idx], response[1])
    /\ pc' = "append"
    /\ events' = Append(events, Did("validate", <<>>))
    /\ UNCHANGED <<textvars, mainvars, sheetvars, outvars,
                   company_names, progress_callback, max_retries,
                   environment, faults,
                   idx, summaries, attempt, response, exc, sleep_for, now,
                   last_reset, num_calls, calllog, admitted, origin>>

\* Mutant: the handler lets the exception out of generate_company_summary
\* and out of the batch.
SummaryExcept_Escapes ==
    /\ pc = "summary_except"
    /\ pc' = "aborted"
    /\ UNCHANGED <<textvars, events, mainvars, sheetvars, outvars,
                   company_names, progress_callback, max_retries,
                   environment, faults,
                   idx, summaries, summary, attempt, response, exc, sleep_for,
                   now, last_reset, num_calls, calllog, admitted, origin>>

\* Mutant: the handler re-raises, so the batch loop's handler takes over.
SummaryExcept_Reraises ==
    /\ pc = "summary_except"
    /\ pc' = "loop_except"
    /\ UNCHANGED <<textvars, events, mainvars, sheetvars, outvars,
                   company_names, progress_callback, max_retries,
                   environment, faults,
                   idx, summaries, summary, attempt, response, exc, sleep_for,
                   now, last_reset, num_calls, calllog, admitted, origin>>

\* except Exception as e: of generate_company_summary
SummaryExcept ==
    /\ pc = "summary_except"
    /\ summary' = ErrorResult(company_names[idx], exc)
    /\ pc' = "append"
    /\ UNCHANGED <<textvars, events, mainvars, sheetvars, outvars,
                   company_names, progress_callback, max_retries,
                   environment, faults,
                   idx, summaries, attempt, response, exc, sleep_for, now,
                   last_reset, num_calls, calllog, admitted, origin>>

\* ------------------------------------------ @sleep_and_retry and @limits
\* RateLimitDecorator.__period_remaining
period_remaining == PERIOD - (now - last_reset)

\* num_calls after the reset-if-elapsed and the increment of the wrapper
CountedCalls == (IF period_remaining <= 0 THEN 0 ELSE num_calls) + 1

ResetIfElapsed == IF period_remaining <= 0 THEN now ELSE last_reset

\* for attempt in range(self.max_retries): position for loop variable a
ForNext(a) == IF a < max_retries THEN "create" ELSE "fallthrough"

\* an admission less than PERIOD seconds old
Recent(t) == now - t < PERIOD

\* Mutant: the attempt counter is kept from the call before.
LimitsAdmit_KeepsAttempt ==
    /\ pc = "call"
    /\ CountedCalls <= CALLS
    /\ num_calls' = CountedCalls
    /\ last_reset' = ResetIfElapsed
    /\ admitted' = Append(SelectSeq(admitted, Recent), now)
    /\ calllog' = <<>>
    /\ pc' = ForNext(attempt)
    /\ UNCHANGED <<textvars, events, mainvars, sheetvars, outvars,
                   company_names, progress_callback, max_retries,
                   environment, faults, attempt,
                   idx, summaries, summary, response, exc, sleep_for, now,
                   origin>>

\* the wrapper lets the call through: the body of _make_api_call starts
LimitsAdmit ==
    /\ pc = "call"
    /\ CountedCalls <= CALLS
    /\ num_calls' = CountedCalls
    /\ last_reset' = ResetIfElapsed
    /\ admitted' = Append(SelectSeq(admitted, Recent), now)
    /\ calllog' = <<>>
    /\ attempt' = 0
    /\ pc' = ForNext(0)
    /\ UNCHANGED <<textvars, events, mainvars, sheetvars, outvars,
                   company_names, progress_callback, max_retries,
                   environment, faults,
                   idx, summaries, summary, response, exc, sleep_for, now,
                   origin>>

\* Mutant: without sleep_and_retry the limiter's exception reaches
\* generate_company_summary.
LimitsReject_Propagates ==
    /\ pc = "call"
    /\ CountedCalls > CALLS
    /\ num_calls' = CountedCalls
    /\ last_reset' = ResetIfElapsed
    /\ exc' = "RateLimitException"
    /\ pc' = "summary_except"
    /\ UNCHANGED <<textvars, events, mainvars, sheetvars, outvars,
                   company_names, progress_callback, max_retries,
                   environment, faults,
                   idx, summaries, summary, attempt, response, sleep_for, now,
                   calllog, admitted, origin>>

\* the wrapper raises RateLimitException(period_remaining), which
\* sleep_and_retry catches
LimitsReject ==
    /\ pc = "call"
    /\ CountedCalls > CALLS
    /\ num_calls' = CountedCalls
    /\ last_reset' = ResetIfElapsed
    /\ sleep_for' = period_remaining
    /\ pc' = "throttled"
    /\ UNCHANGED <<textvars, events, mainvars, sheetvars, outvars,
                   company_names, progress_callback, max_retries,
                   environment, faults,
                   idx, summaries, summary, attempt, response, exc, now,
                   calllog, admitted, origin>>

\* sleep_and_retry: time.sleep(exception.period_remaining), then call again
SleepAndRetry ==
    /\ pc = "throttled"
    /\ now' = now + sleep_for
    /\ pc' = "call"
    /\ UNCHANGED <<textvars, events, mainvars, sheetvars, outvars,
                   company_names, progress_callback, max_retries,
                   environment, faults,
                   idx, summaries, summary, attempt, response, exc, sleep_for,
                   last_reset, num_calls, calllog, admitted, origin>>

\* ---------------------------------------------------------- _make_api_call
\* Mutant: off by one, the last attempt sleeps too instead of raising.
ShouldRetry_OffByOne(a) == a < max_retries

\* if attempt < self.max_retries - 1: sleep and go round again, else raise
ShouldRetry(a) == a < max_retries - 1

\* Mutant: the short sleep for every kind of failure.
BackoffSeconds_Short(e) == ErrorBackoff

\* time.sleep(60) for a rate-limit signal, time.sleep(5) otherwise
BackoffSeconds(e) == IF e = "RateLimitError" THEN RateLimitBackoff ELSE ErrorBackoff

\* Mutant: the return is missing, the loop goes round again after a success.
CreateReturns_GoesOn ==
    /\ pc = "create"
    /\ \E content \in ProviderContents : response' = <<Strip(content)>>
    /\ calllog' = Append(calllog, Event("attempt", "ok", 0))
    /\ attempt' = attempt + 1
    /\ pc' = ForNext(attempt + 1)
    /\ events' = Append(events, Did("attempt", <<>>))
    /\ UNCHANGED <<textvars, mainvars, sheetvars, outvars,
                   company_names, progress_callback, max_retries,
                   environment, faults,
                   idx, summaries, summary, exc, sleep_for, now,
                   last_reset, num_calls, admitted, origin>>

\* the request succeeds: return response.choices[0].message.content.strip()
CreateReturns ==
    /\ pc = "create"
    /\ \E content \in ProviderContents : response' = <<Strip(content)>>
    /\ calllog' = calllog \o <<Event("attempt", "ok", 0), Event("return", "ok", 0)>>
    /\ pc' = "validate"
    /\ events' = Append(events, Did("attempt", <<>>))
    /\ UNCHANGED <<textvars, mainvars, sheetvars, outvars,
                   company_names, progress_callback, max_retries,
                   environment, faults,
                   idx, summaries, summary, attempt, exc, sleep_for, now,
                   last_reset, num_calls, admitted, origin>>

\* the request raises and attempts are left: the except clause will sleep
CreateRaisesRetry ==
    /\ pc = "create"
    /\ MayFail
    /\ faults' = faults + 1
    /\ ShouldRetry(attempt)
    /\ \E e \in ProviderFailures :
          /\ exc' = e
          /\ sleep_for' = BackoffSeconds(e)
          /\ calllog' = Append(calllog, Event("attempt", e, 0))
    /\ pc' = "backoff"
    /\ events' = Append(events, Did("attempt", <<>>))
    /\ UNCHANGED <<textvars, mainvars, sheetvars, outvars,
                   company_names, progress_callback, max_retries,
                   environment,
                   idx, summaries, summary, attempt, response, now, last_reset,
                   num_calls, admitted, origin>>

\* the request raises on the last attempt: raise e
CreateRaisesLast ==
    /\ pc = "create"
    /\ MayFail
    /\ faults' = faults + 1
    /\ ~ShouldRetry(attempt)
    /\ \E e \in ProviderFailures :
          /\ exc' = e
          /\ calllog' = calllog \o <<Event("attempt", e, 0), Event("raise", e, 0)>>
    /\ pc' = "summary_except"
    /\ events' = Append(events, Did("attempt", <<>>))
    /\ UNCHANGED <<textvars, mainvars, sheetvars, outvars,
                   company_names, progress_callback, max_retries,
                   environment,
                   idx, summaries, summary, attempt, response, sleep_for, now,
                   last_reset, num_calls, admitted, origin>>

\* Mutant: only rate-limit failures use up the attempts.
Backoff_CountsRateLimitsOnly ==
    /\ pc = "backoff"
    /\ now' = now + sleep_for
    /\ calllog' = Append(calllog, Event("sleep", "sleep", sleep_for))
    /\ attempt' = IF exc = "RateLimitError" THEN attempt + 1 ELSE attempt
    /\ exc' = "none"
    /\ pc' = ForNext(attempt')
    /\ UNCHANGED <<textvars, events, mainvars, sheetvars, outvars,
                   company_names, progress_callback, max_retries,
                   environment, faults,
                   idx, summaries, summary, response, sleep_for, last_reset,
                   num_calls, admitted, origin>>

\* time.sleep(...) of an except clause, then the next round of the for loop
Backoff ==
    /\ pc = "backoff"
    /\ now' = now + sleep_for
    /\ calllog' = Append(calllog, Event("sleep", "sleep", sleep_for))
    /\ attempt' = attempt + 1
    /\ exc' = "none"
    /\ pc' = ForNext(attempt + 1)
    /\ UNCHANGED <<textvars, events, mainvars, sheetvars, outvars,
                   company_names, progress_callback, max_retries,
                   environment, faults,
                   idx, summaries, summary, response, sleep_for, last_reset,
                   num_calls, admitted, origin>>

\* the for loop ends without a return or a raise: the function returns None
CallFallsThrough ==
    /\ pc = "fallthrough"
    /\ response' = <<NoneVal>>
    /\ calllog' = Append(calllog, Event("return", "None", 0))
    /\ pc' = "validate"
    /\ UNCHANGED <<textvars, events, mainvars, sheetvars, outvars,
                   company_names, progress_callback, max_retries,
                   environment, faults,
                   idx, summaries, summary, attempt, exc, sleep_for, now,
                   last_reset, num_calls, admitted, origin>>

\* ------------------------------------------------------ the output stage
\* OutputPipeline: create_summary_worksheet, then write_summaries, on the
\* list the batch returned.
headers ==
    <<"Company Name", "Summary", "Processing Status", "Timestamp",
      "Error Message", "Data Confidence", "Industry", "Key Activities",
      "Target Market", "Business Model">>

\* Mutant: status and timestamp change places.
Row_StatusAfterTimestamp(s) ==
    <<s.company_name, s.summary, s.timestamp, s.status, s.error,
      extract_confidence(s.summary), extract_industry(s.summary),
      extract_key_activities(s.summary), extract_target_market(s.summary),
      extract_business_model(s.summary)>>

\* the row write_summaries builds for the result s
Row(s) ==
    <<s.company_name, s.summary, s.status, s.timestamp, s.error,
      extract_confidence(s.summary), extract_industry(s.summary),
      extract_key_activities(s.summary), extract_target_market(s.summary),
      extract_business_model(s.summary)>>

\* self.worksheet_name_output
DefaultOutputName == "Company Summaries"

\* a worksheet title of the caller's choice
CustomName == "Summaries Q3"

\* what an earlier run left in the worksheet titled CustomName
OtherRows == <<<<"Company Name">>, <<"Globex">>>>

\* sheet_name = worksheet_name or self.worksheet_name_output
SheetName(name) == IF name = NoneVal \/ name = "" THEN DefaultOutputName ELSE name

\* The worksheet_name an OutputPipeline is built with: main() gives none.
WorksheetNames == IF entry = "main" THEN {NoneVal} ELSE {NoneVal, CustomName}

\* OutputPipeline(summaries, worksheet_name)
OutputPipelineBuilt == \E name \in WorksheetNames : worksheet_name' = name

\* https://docs.google.com/spreadsheets/d/{GOOGLE_SHEETS_ID}/edit
SpreadsheetUrl == "https://docs.google.com/spreadsheets/d/ID/edit"

\* get_worksheet_url: the URL of the worksheet of that title (its title
\* stands for its id), or of the spreadsheet if there is no such worksheet
get_worksheet_url(name) ==
    IF SheetName(name) = DefaultOutputName \/ custom # <<>>
    THEN SpreadsheetUrl \o "#gid=" \o SheetName(name)
    ELSE SpreadsheetUrl

\* create_summary_worksheet(), called without a worksheet name: the
\* worksheet titled DefaultOutputName is cleared (or created) and the header
\* row appended
CreateSummaryWorksheet ==
    /\ pc = "returned"
    /\ OutputPipelineBuilt
    /\ worksheet' = <<headers>>
    /\ pc' = "write_summaries"
    /\ UNCHANGED <<textvars, events, mainvars, company_names, progress_callback, max_retries,
                   environment, faults, idx, summaries, summary, attempt,
                   response, exc, sleep_for, now, last_reset, num_calls,
                   calllog, admitted, origin, rows_to_add, row_idx, custom,
                   output_url>>

\* a request to the spreadsheet fails in create_summary_worksheet: raise e
CreateSummaryWorksheetFails ==
    /\ pc = "returned"
    /\ MayFail
    /\ OutputPipelineBuilt
    /\ faults' = faults + 1
    /\ exc' = "APIError(sheets)"
    /\ pc' = "output_failed"
    /\ UNCHANGED <<textvars, events, mainvars, custom, output_url, outvars,
                   company_names, progress_callback,
                   max_retries, environment, idx, summaries, summary, attempt,
                   response, sleep_for, now, last_reset, num_calls, calllog,
                   admitted, origin>>

\* write_summaries(self.summaries, self.worksheet_name), STEP 1 and the start
\* of STEP 2: the spreadsheet holds a worksheet of the title asked for
WriteSummariesStart ==
    /\ pc = "write_summaries"
    /\ custom' = IF SheetName(worksheet_name) = DefaultOutputName
                 THEN custom
                 ELSE <<OtherRows>>
    /\ rows_to_add' = <<>>
    /\ row_idx' = 1
    /\ pc' = "rows"
    /\ UNCHANGED <<textvars, events, mainvars, company_names, progress_callback, max_retries,
                   environment, faults, idx, summaries, summary, attempt,
                   response, exc, sleep_for, now, last_reset, num_calls,
                   calllog, admitted, origin, worksheet, worksheet_name,
                   output_url>>

\* STEP 1 when the spreadsheet holds no worksheet of the title asked for:
\* self.spreadsheet.worksheet(sheet_name) raises WorksheetNotFound, which
\* write_summaries logs and raises again
WriteSummariesNotFound ==
    /\ pc = "write_summaries"
    /\ SheetName(worksheet_name) # DefaultOutputName
    /\ exc' = "WorksheetNotFound"
    /\ pc' = "output_failed"
    /\ UNCHANGED <<textvars, events, mainvars, sheetvars, outvars,
                   company_names, progress_callback,
                   max_retries, environment, faults, idx, summaries, summary,
                   attempt, response, sleep_for, now, last_reset, num_calls,
                   calllog, admitted, origin>>

\* the loop body of STEP 2 for a result whose summary is a text
RowBuilt ==
    /\ pc = "rows"
    /\ row_idx <= Len(summaries)
    /\ ~ExtractionRaises(summaries[row_idx].summary)
    /\ rows_to_add' = Append(rows_to_add, Row(summaries[row_idx]))
    /\ row_idx' = row_idx + 1
    /\ UNCHANGED <<textvars, events, mainvars, company_names, progress_callback, max_retries,
                   environment, faults, idx, summaries, summary, attempt,
                   response, exc, sleep_for, now, last_reset, num_calls,
                   calllog, admitted, origin, pc, worksheet, sheetvars>>

\* the loop body for a result whose summary is None: the first extractor
\* raises TypeError, which write_summaries logs and raises again
RowRaises ==
    /\ pc = "rows"
    /\ row_idx <= Len(summaries)
    /\ ExtractionRaises(summaries[row_idx].summary)
    /\ exc' = "TypeError"
    /\ pc' = "output_failed"
    /\ UNCHANGED <<textvars, events, mainvars, sheetvars, outvars,
                   company_names, progress_callback,
                   max_retries, environment, faults, idx, summaries, summary,
                   attempt, response, sleep_for, now, last_reset, num_calls,
                   calllog, admitted, origin>>

\* STEP 3: worksheet.append_rows(rows_to_add) if there is any row, on the
\* worksheet STEP 1 fetched
AppendRows ==
    /\ pc = "rows"
    /\ row_idx > Len(summaries)
    /\ worksheet' = IF rows_to_add # <<>> /\ SheetName(worksheet_name) = DefaultOutputName
                    THEN worksheet \o rows_to_add
                    ELSE worksheet
    /\ custom' = IF rows_to_add # <<>> /\ SheetName(worksheet_name) # DefaultOutputName
                 THEN <<custom[1] \o rows_to_add>>
                 ELSE custom
    /\ pc' = "output_done"
    /\ UNCHANGED <<textvars, events, mainvars, company_names, progress_callback, max_retries,
                   environment, faults, idx, summaries, summary, attempt,
                   response, exc, sleep_for, now, last_reset, num_calls,
                   calllog, admitted, origin, rows_to_add, row_idx,
                   worksheet_name, output_url>>

\* the request of append_rows fails: raise e
AppendRowsFails ==
    /\ pc = "rows"
    /\ row_idx > Len(summaries)
    /\ rows_to_add # <<>>
    /\ MayFail
    /\ faults' = faults + 1
    /\ exc' = "APIError(sheets)"
    /\ pc' = "output_failed"
    /\ UNCHANGED <<textvars, events, mainvars, sheetvars, outvars,
                   company_names, progress_callback,
                   max_retries, environment, idx, summaries, summary, attempt,
                   response, sleep_for, now, last_reset, num_calls, calllog,
                   admitted, origin>>

\* initiate_output_pipeline returns get_worksheet_url(self.worksheet_name),
\* and run returns it
OutputReturns ==
    /\ pc = "output_done"
    /\ output_url' = get_worksheet_url(worksheet_name)
    /\ pc' = "output_returned"
    /\ UNCHANGED <<textvars, mainvars, outvars, batchvars_but_pc, worksheet_name,
                   custom>>

\* except Exception as e: of OutputPipeline.run prints the error; run ends
\* without a return statement, so that it returns None
OutputSwallows ==
    /\ pc = "output_failed"
    /\ output_url' = NoneVal
    /\ pc' = "output_returned"
    /\ UNCHANGED <<textvars, mainvars, outvars, batchvars_but_pc, worksheet_name,
                   custom>>

\* ------------------------------------------------------------------ main()
ReturnedInt(code) == [kind |-> "int", code |-> code]

\* return workflow_results: the dict, not an exit code
ReturnedDict == [kind |-> "dict", code |-> 0]

\* STAGE 1 yields companies: `if not companies` is false
InputReturns ==
    /\ pc = "input"
    /\ company_names # <<>>
    /\ pc' = "idle"
    /\ UNCHANGED <<textvars, mainvars, sheetvars, outvars, batchvars_but_pc>>

\* STAGE 1 yields an empty list: return workflow_results
MainNoCompanies ==
    /\ pc = "input"
    /\ company_names = <<>>
    /\ workflow_status' = "no_companies"
    /\ main_return' = ReturnedDict
    /\ pc' = "main_returned"
    /\ UNCHANGED <<textvars, entry, rate_limit, sheetvars, outvars,
                   batchvars_but_pc>>

\* STAGE 1 fails: InputPipeline.run prints the error and returns None, and
\* `if not companies` is true
InputFails ==
    /\ pc = "input"
    /\ MayFail
    /\ faults' = faults + 1
    /\ workflow_status' = "no_companies"
    /\ main_return' = ReturnedDict
    /\ pc' = "main_returned"
    /\ UNCHANGED <<textvars, entry, rate_limit, sheetvars, outvars,
                   company_names, progress_callback, max_retries, environment,
                   idx, summaries, summary, attempt, response, exc, sleep_for,
                   now, last_reset, num_calls, calllog, admitted, origin,
                   events>>

\* STAGE 2 fails before the batch (configuration, construction of the
\* service): GeneratePipeline.run prints the error and returns None, `for
\* summary in summaries` raises TypeError and main's handler returns 1
GenerateFails ==
    /\ pc = "idle"
    /\ entry = "main"
    /\ MayFail
    /\ faults' = faults + 1
    /\ exc' = "TypeError(None)"
    /\ workflow_status' = "failed"
    /\ main_return' = ReturnedInt(1)
    /\ pc' = "main_returned"
    /\ UNCHANGED <<textvars, entry, rate_limit, sheetvars, outvars,
                   company_names, progress_callback, max_retries, environment,
                   idx, summaries, summary, attempt, response, sleep_for,
                   now, last_reset, num_calls, calllog, admitted, origin,
                   events>>

\* STAGE 4 to 6: output_url = output_pipeline.run(), then status
\* 'completed' and the exit code that goes with the status
MainCompletes ==
    /\ pc = "output_returned"
    /\ entry = "main"
    /\ workflow_status' = "completed"
    /\ main_return' = IF workflow_status' = "completed"
                      THEN ReturnedInt(0)
                      ELSE ReturnedInt(1)
    /\ pc' = "main_returned"
    /\ UNCHANGED <<textvars, entry, rate_limit, sheetvars, outvars,
                   batchvars_but_pc>>

\* --------------------------------------------------------- specifications
Next ==
    \/ BatchStart
    \/ BatchNext
    \/ BatchReturn
    \/ BatchAppend
    \/ CallbackReturns
    \/ CallbackRaises
    \/ BatchSleep
    \/ BatchExcept
    \/ PromptBuilt
    \/ PromptFails
    \/ SummaryValidate
    \/ SummaryExcept
    \/ LimitsAdmit
    \/ LimitsReject
    \/ SleepAndRetry
    \/ CreateReturns
    \/ CreateRaisesRetry
    \/ CreateRaisesLast
    \/ Backoff
    \/ CallFallsThrough
    \/ CreateSummaryWorksheet
    \/ CreateSummaryWorksheetFails
    \/ WriteSummariesStart
    \/ RowBuilt
    \/ RowRaises
    \/ AppendRows
    \/ AppendRowsFails
    \/ WriteSummariesNotFound
    \/ OutputReturns
    \/ OutputSwallows
    \/ InputReturns
    \/ MainNoCompanies
    \/ InputFails
    \/ GenerateFails
    \/ MainCompletes

Spec == Init /\ [][Next]_vars

\* The steps of generate_batch_summaries and of the calls it makes.
BatchSteps ==
    \/ BatchStart
    \/ BatchNext
    \/ BatchReturn
    \/ BatchAppend
    \/ CallbackReturns
    \/ CallbackRaises
    \/ BatchSleep
    \/ BatchExcept
    \/ PromptBuilt
    \/ PromptFails
    \/ SummaryValidate
    \/ SummaryExcept
    \/ LimitsAdmit
    \/ LimitsReject
    \/ SleepAndRetry
    \/ CreateReturns
    \/ CreateRaisesRetry
    \/ CreateRaisesLast
    \/ Backoff
    \/ CallFallsThrough

\* the generate stage, from the companies main() got or on its own
GenerateSteps == InputReturns \/ BatchSteps

\* One thread runs the batch and every step the batch can take is taken;
\* the run is followed up to the return of the batch.
FairSpec == Init /\ [][GenerateSteps]_vars /\ WF_vars(BatchSteps)

\* -------------------------------------- the validator and the extractors
\* One text goes through _validate_response and then through the five
\* extractors in the order in which write_summaries calls them.
TextInit ==
    /\ company_names = <<>>
    /\ progress_callback = "none"
    /\ entry = "stage"
    /\ max_retries = 1
    /\ rate_limit = CALLS
    /\ environment = "any"
    /\ InitBatch
    /\ InitOutput
    /\ InitSheets
    /\ InitMain
    /\ input_text \in Texts
    /\ tpc = "validate"
    /\ verdict = FALSE
    /\ fields = NoFields

ApplyValidate ==
    /\ tpc = "validate"
    /\ verdict' = validate_response(input_text)
    /\ tpc' = "confidence"
    /\ UNCHANGED <<batchvars, outvars, mainvars, sheetvars, input_text, fields>>

ApplyConfidence ==
    /\ tpc = "confidence"
    /\ fields' = [fields EXCEPT !.confidence = extract_confidence(input_text)]
    /\ tpc' = "industry"
    /\ UNCHANGED <<batchvars, outvars, mainvars, sheetvars, input_text, verdict>>

ApplyIndustry ==
    /\ tpc = "industry"
    /\ fields' = [fields EXCEPT !.industry = extract_industry(input_text)]
    /\ tpc' = "key_activities"
    /\ UNCHANGED <<batchvars, outvars, mainvars, sheetvars, input_text, verdict>>

ApplyKeyActivities ==
    /\ tpc = "key_activities"
    /\ fields' = [fields EXCEPT !.key_activities = extract_key_activities(input_text)]
    /\ tpc' = "target_market"
    /\ UNCHANGED <<batchvars, outvars, mainvars, sheetvars, input_text, verdict>>

ApplyTargetMarket ==
    /\ tpc = "target_market"
    /\ fields' = [fields EXCEPT !.target_market = extract_target_market(input_text)]
    /\ tpc' = "business_model"
    /\ UNCHANGED <<batchvars, outvars, mainvars, sheetvars, input_text, verdict>>

ApplyBusinessModel ==
    /\ tpc = "business_model"
    /\ fields' = [fields EXCEPT !.business_model = extract_business_model(input_text)]
    /\ tpc' = "done"
    /\ UNCHANGED <<batchvars, outvars, mainvars, sheetvars, input_text, verdict>>

TextNext ==
    \/ ApplyValidate
    \/ ApplyConfidence
    \/ ApplyIndustry
    \/ ApplyKeyActivities
    \/ ApplyTargetMarket
    \/ ApplyBusinessModel

TextSpec == TextInit /\ [][TextNext]_vars

\* ------------------------------------------------------ reading the history
IsAttempt(e) == e.ev = "attempt"

\* the provider attempts of the company's call, in order
attempts == SelectSeq(calllog, IsAttempt)

\* number of attempts among the first p events of the call
AttemptsUpTo(p) == Len(SelectSeq(SubSeq(calllog, 1, p), IsAttempt))

\* the entries of summaries that belong to the company at index k
ResultsOf(k) == {r \in 1..Len(origin) : origin[r].idx = k}

\* ------------------------------------------------------------------ claims

\* C1: when generate_batch_summaries returns, the list has exactly one result
\* per input name: same length as company_names, and result k carries name k.
C1_OneResultPerName ==
    pc = "returned" =>
        /\ Len(summaries) = Len(company_names)
        /\ \A k \in 1..Len(company_names) :
               summaries[k].company_name = company_names[k]

\* C2: with max_retries >= 1, a company whose call failed on every attempt
\* took at most max_retries attempts, and from the moment its call gives up
\* the batch goes on: every later company gets a result and the batch returns.
Exhausted(k) ==
    /\ pc = "summary_except"
    /\ idx = k
    /\ exc \in ProviderErrors
    /\ max_retries >= 1

Finished(k) ==
    /\ pc = "returned"
    /\ \A j \in k..Len(company_names) : ResultsOf(j) # {}

C2_BatchContinues ==
    /\ [](Len(attempts) <= IF max_retries >= 1 THEN max_retries ELSE 0)
    /\ \A k \in 1..MaxCompanies : Exhausted(k) ~> Finished(k)

C2_Witness ==
    /\ pc = "returned"
    /\ Len(company_names) >= 2
    /\ max_retries >= 2
    /\ summaries[1].status = "error"
    /\ origin[1].exc \in ProviderErrors
    /\ ResultsOf(2) # {}

\* C3 as stated: an unavailable template is fatal, so no per-company result
\* is ever recorded for a template failure.
C3_TemplateFailureIsFatal ==
    \A r \in 1..Len(origin) : origin[r].exc # "FileNotFoundError"

\* C3 as amended: an unavailable template is not fatal.  No provider attempt
\* is made for the company in hand, generate_company_summary turns the
\* failure into that company's result with status 'error' carrying the
\* message, and the batch goes on to return with a result for every company.
C3_TemplateFailureIsPerCompany ==
    /\ (pc = "summary_except" /\ exc = "FileNotFoundError") => calllog = <<>>
    /\ \A r \in 1..Len(origin) :
           origin[r].exc = "FileNotFoundError" =>
               /\ origin[r].by = "generate_company_summary"
               /\ origin[r].ret = <<>>
               /\ summaries[r].company_name = company_names[origin[r].idx]
               /\ summaries[r].status = "error"
               /\ summaries[r].error = "No such file or directory"
               /\ summaries[r].summary =
                      "Error generating summary: No such file or directory"
    /\ pc = "returned" => \A j \in 1..Len(company_names) : ResultsOf(j) # {}

C3_Witness ==
    /\ pc = "returned"
    /\ Len(company_names) >= 2
    /\ origin[1].exc = "FileNotFoundError"
    /\ summaries[1].status = "error"
    /\ \E r \in ResultsOf(2) : summaries[r].status = "success"

\* C4: when the call of a company gives up after its last attempt failed,
\* generate_company_summary returns normally a result with status 'error',
\* the failure's message embedded in the summary text and the same message
\* in the error field.
C4_CallFailureBecomesErrorResult ==
    /\ \A r \in 1..Len(origin) :
           origin[r].exc \in ProviderErrors =>
               /\ origin[r].by = "generate_company_summary"
               /\ summaries[r].company_name = company_names[origin[r].idx]
               /\ summaries[r].status = "error"
               /\ summaries[r].error = Msg(origin[r].exc)
               /\ summaries[r].summary =
                      "Error generating summary: " \o Msg(origin[r].exc)
               /\ Msg(origin[r].exc) # ""
    /\ (pc = "append" /\ exc \in ProviderErrors) =>
           /\ summary.status = "error"
           /\ summary.error = Msg(exc)

C4_Witness ==
    \E r \in 1..Len(origin) :
        /\ origin[r].exc = "APIError"
        /\ max_retries >= 2
        /\ summaries[r].status = "error"
        /\ summaries[r].error = "api error"

\* C5: a result is 'success' exactly when the call returned a value the
\* validator accepts (then error is None), and 'warning' exactly when the
\* call returned a value the validator rejects (then error is 'Response
\* quality below threshold' and the summary is the returned value unchanged);
\* a 50-character response yields 'warning'.
ReturnValues == {Strip(content) : content \in Contents} \cup {NoneVal}

\* the values _make_api_call can return that the validator accepts
AcceptedValues ==
    UNION {IF validate_response(v) THEN {v} ELSE {} : v \in ReturnValues}

C6_CriticalErrorIsOnlyResult ==
    \A r \in 1..Len(origin) :
        summaries[r].status = "critical_error" =>
            /\ summaries[r].error = Msg(origin[r].exc)
            /\ ResultsOf(origin[r].idx) = {r}

\* C7: while every attempt of a call raises a rate-limit signal, the call
\* consists of attempts separated by 60-second sleeps; it ends after exactly
\* max_retries attempts and max_retries - 1 sleeps, with no sleep after the
\* last attempt, by propagating the rate-limit failure.
AllRateLimited ==
    /\ Len(attempts) >= 1
    /\ \A k \in 1..Len(attempts) : attempts[k].what = "RateLimitError"

RateLimitedCall(n) ==
    [p \in 1..(2 * n) |->
        IF p = 2 * n THEN Event("raise", "RateLimitError", 0)
        ELSE IF p % 2 = 1 THEN Event("attempt", "RateLimitError", 0)
        ELSE Event("sleep", "sleep", 60)]

C7_RateLimitRetries ==
    AllRateLimited =>
        /\ Len(attempts) <= max_retries
        /\ Len(calllog) <= 2 * max_retries
        /\ \A p \in 1..Len(calllog) : calllog[p] = RateLimitedCall(max_retries)[p]
        /\ pc \in {"backoff", "create", "summary_except", "append"}
        /\ pc \in {"summary_except", "append"} =>
               /\ calllog = RateLimitedCall(max_retries)
               /\ exc = "RateLimitError"
        /\ pc = "backoff" => sleep_for = 60

C7_Witness ==
    /\ pc = "summary_except"
    /\ AllRateLimited
    /\ max_retries >= 2
    /\ Len(attempts) = max_retries

\* C8: an attempt that fails with an API error or any other non-rate-limit
\* error is followed by a 5-second sleep and another attempt when fewer than
\* max_retries attempts have been made; when it is the max_retries-th
\* attempt the error is propagated with no further sleep.
C8_ErrorRetries ==
    \A p \in 1..Len(calllog) :
        (calllog[p].ev = "attempt" /\ calllog[p].what \in {"APIError", "Exception"}) =>
            IF AttemptsUpTo(p) < max_retries
            THEN /\ p = Len(calllog) => (pc = "backoff" /\ sleep_for = 5)
                 /\ p < Len(calllog) => calllog[p + 1] = Event("sleep", "sleep", 5)
                 /\ p + 1 = Len(calllog) => pc = "create"
                 /\ p + 1 < Len(calllog) => calllog[p + 2].ev = "attempt"
            ELSE /\ AttemptsUpTo(p) = max_retries
                 /\ p + 1 = Len(calllog)
                 /\ calllog[p + 1] = Event("raise", calllog[p].what, 0)
                 /\ pc \in {"summary_except", "append"}

C8_Witness ==
    /\ pc = "summary_except"
    /\ max_retries >= 2
    /\ Len(attempts) = max_retries
    /\ attempts[1].what = "APIError"
    /\ attempts[max_retries].what = "Exception"

\* C9: every interval of PERIOD = 60 seconds that starts at an admission
\* holds at most CALLS = 60 admissions of _make_api_call.
C9_RollingWindow ==
    \A k \in 1..Len(admitted) :
        Cardinality({j \in 1..Len(admitted) :
                        /\ admitted[j] >= admitted[k]
                        /\ admitted[j] < admitted[k] + PERIOD}) <= CALLS

\* C10: a call that finds the budget of the window used up is suspended and
\* then admitted, so that the body of _make_api_call runs; the limiter's own
\* exception never reaches a result.
C10_ThrottledNotRejected ==
    /\ [](\A r \in 1..Len(origin) : origin[r].exc # "RateLimitException")
    /\ [](pc = "summary_except" => exc # "RateLimitException")
    /\ (pc = "throttled") ~> (pc \in {"create", "fallthrough"})

C10_Witness ==
    /\ now >= PERIOD
    /\ num_calls = 1
    /\ \E r \in ResultsOf(CALLS + 1) : summaries[r].status = "success"

\* how many of the three section markers occur in s
MarkersFound(s) ==
    Cardinality({m \in {"COMPANY OVERVIEW", "INDUSTRY & SECTOR",
                        "KEY BUSINESS ACTIVITIES"} : Contains(s, m)})

\* the number of characters of s from its first to its last character that
\* is not whitespace
CoreLen(s) ==
    Cardinality({k \in 1..Len(s) :
                    /\ \E i \in 1..k : Char(s, i) \notin Whitespace
                    /\ \E j \in k..Len(s) : Char(s, j) \notin Whitespace})

Validated == tpc \notin {"off", "validate"}

RECURSIVE ReturnedResults(_)
ReturnedResults(n) ==
    IF n = 0 THEN <<>>
    ELSE IF origin[n].by = "generate_company_summary"
         THEN Append(ReturnedResults(n - 1), summaries[n])
         ELSE ReturnedResults(n - 1)

\* C12: the callback has no influence on the list returned: whether none is
\* given, one that returns or one that raises, the batch returns the list it
\* returns without callback.
C12_CallbackHasNoInfluence ==
    pc = "returned" => summaries = ReturnedResults(Len(summaries))

\* C13: every result has one of the four statuses, and its error field is
\* None exactly when the status is 'success'.
C13_StatusAndError ==
    /\ \A r \in 1..Len(summaries) :
           /\ summaries[r].status \in {"success", "warning", "error", "critical_error"}
           /\ summaries[r].error = NoneVal <=> summaries[r].status = "success"
    /\ pc = "append" =>
           /\ summary.status \in {"success", "warning", "error"}
           /\ summary.error = NoneVal <=> summary.status = "success"

C13_Witness ==
    /\ pc = "returned"
    /\ \E r \in 1..Len(summaries) : summaries[r].status = "success"
    /\ \E r \in 1..Len(summaries) : summaries[r].status = "warning"
    /\ \E r \in 1..Len(summaries) : summaries[r].status = "critical_error"

\* C14: results are append-only: a step of the batch or of the output stage
\* leaves the results recorded so far as they are, in their places, and at
\* most adds results after them.
C14_AppendOnly ==
    [][/\ Len(summaries') >= Len(summaries)
       /\ SubSeq(summaries', 1, Len(summaries)) = summaries]_vars

C14_Witness ==
    /\ pc = "output_done"
    /\ Len(company_names) >= 2
    /\ Len(summaries) > Len(company_names)
    /\ Len(worksheet) = Len(summaries) + 1

\* C15: extraction never raises: write_summaries never fails with an
\* exception of an extractor, whatever summary a result of the batch carries.
C15_ExtractionNeverRaises ==
    ~(pc = "output_failed" /\ exc = "TypeError")

\* the five fields, with the marker, the stop and the length limit of each
FieldNames ==
    {"confidence", "industry", "key_activities", "target_market", "business_model"}

MarkerOf(f) ==
    CASE f = "confidence" -> "DATA CONFIDENCE:"
      [] f = "industry" -> "INDUSTRY & SECTOR:"
      [] f = "key_activities" -> "KEY BUSINESS ACTIVITIES:"
      [] f = "target_market" -> "TARGET MARKET:"
      [] f = "business_model" -> "BUSINESS MODEL:"

StopOf(f) ==
    CASE f = "confidence" -> "\n"
      [] f = "industry" -> "\n"
      [] f = "key_activities" -> "TARGET MARKET:"
      [] f = "target_market" -> "BUSINESS MODEL:"
      [] f = "business_model" -> "KEY DIFFERENTIATORS:"

LimitOf(f) == IF f = "industry" THEN 100 ELSE 200

Extracted == tpc = "done"

\* C16: a field whose marker does not occur in the text is 'Not specified'.
C16_MissingMarker ==
    Extracted =>
        \A f \in FieldNames :
            ~Contains(input_text, MarkerOf(f)) => fields[f] = "Not specified"

C16_Witness ==
    /\ Extracted
    /\ Contains(input_text, "TARGET MARKET:")
    /\ fields.target_market # "Not specified"
    /\ ~Contains(input_text, "INDUSTRY & SECTOR:")
    /\ fields.industry = "Not specified"
    /\ Len(input_text) > 20

\* C17: the industry has at most 100 characters; key activities, target
\* market and business model have at most 200 each.
C17_Truncation ==
    Extracted =>
        /\ Len(fields.industry) <= 100
        /\ Len(fields.key_activities) <= 200
        /\ Len(fields.target_market) <= 200
        /\ Len(fields.business_model) <= 200

C17_Witness ==
    /\ Extracted
    /\ Len(input_text) > 200
    /\ Len(fields.industry) = 100
    /\ Len(fields.key_activities) = 200

\* the text after the first occurrence of marker
AfterFirst(s, marker) == SubSeq(s, Find(s, marker) + Len(marker), Len(s))

\* rest up to the first occurrence of any of stops, all of it when none occurs
Before(rest, stops) ==
    LET at == {Find(rest, stop) : stop \in stops} \ {0}
    IN  IF at = {} THEN rest ELSE SubSeq(rest, 1, MinOf(at) - 1)

TextFields == {"industry", "key_activities", "target_market", "business_model"}

\* C18 as stated: when the marker of a field occurs, the field is the text
\* after the marker up to the field's stop, or up to the end of the text when
\* no stop follows, stripped and then truncated.
C18_ValueUpToStop ==
    Extracted =>
        \A f \in TextFields :
            Contains(input_text, MarkerOf(f)) =>
                fields[f] = Slice(Strip(Before(AfterFirst(input_text, MarkerOf(f)),
                                               {StopOf(f)})), LimitOf(f))

\* C18 as amended: the text after the first occurrence of the marker ends at
\* the field's stop or at the next occurrence of the field's own marker,
\* whichever comes first, or at the end of the text when neither follows; it
\* is stripped and then truncated.  The sections 'Software', 'Builds
\* widgets', 'SMBs' and 'SaaS' of the sample text come out as such.
C18_ValueUpToStopOrMarker ==
    Extracted =>
        /\ \A f \in TextFields :
               Contains(input_text, MarkerOf(f)) =>
                   fields[f] = Slice(Strip(Before(AfterFirst(input_text, MarkerOf(f)),
                                                  {StopOf(f), MarkerOf(f)})), LimitOf(f))
        /\ input_text = SectionsText =>
               /\ fields.industry = "Software"
               /\ fields.key_activities = "Builds widgets"
               /\ fields.target_market = "SMBs"
               /\ fields.business_model = "SaaS"

C18_Witness ==
    /\ Extracted
    /\ Len(Split(input_text, "BUSINESS MODEL:")) = 3
    /\ fields.business_model = "High"
    /\ fields.industry = "Not specified"

\* w occurs in s, upper and lower case letters taken as the same
SameLetter(a, b) ==
    \/ a = b
    \/ \E i \in 1..Len(LowerCase) :
           {a, b} = {Char(LowerCase, i), Char(UpperCase, i)}

ContainsNoCase(s, w) ==
    \E k \in 1..(Len(s) - Len(w) + 1) :
        \A j \in 1..Len(w) : SameLetter(Char(s, k + j - 1), Char(w, j))

\* the confidence that goes with the part of a line: the first of HIGH,
\* MEDIUM, LOW that occurs in it, 'Not specified' when none does
LevelIn(line) ==
    IF ContainsNoCase(line, "HIGH") THEN "HIGH"
    ELSE IF ContainsNoCase(line, "MEDIUM") THEN "MEDIUM"
    ELSE IF ContainsNoCase(line, "LOW") THEN "LOW"
    ELSE "Not specified"

\* the conditions of C19 on the confidence for the part of the line looked at
ConfidenceFor(line) ==
    /\ fields.confidence \in {"HIGH", "MEDIUM", "LOW", "Not specified"}
    /\ fields.confidence # "Not specified" => ContainsNoCase(line, fields.confidence)
    /\ fields.confidence = "Not specified" <=>
           \A w \in {"HIGH", "MEDIUM", "LOW"} : ~ContainsNoCase(line, w)

\* C19 as stated: the confidence is HIGH, MEDIUM, LOW or 'Not specified';
\* with the marker present it is a level word that occurs, in any case, in
\* the rest of the marker's line, and 'Not specified' exactly when none does.
C19_ConfidenceFromLine ==
    Extracted =>
        /\ fields.confidence \in {"HIGH", "MEDIUM", "LOW", "Not specified"}
        /\ Contains(input_text, "DATA CONFIDENCE:") =>
               ConfidenceFor(Before(AfterFirst(input_text, "DATA CONFIDENCE:"), {"\n"}))

\* C19 as amended: the part of the line looked at starts after the first
\* occurrence of the marker and ends at the line break or at the next
\* occurrence of the marker, whichever comes first; of the level words that
\* occur there HIGH goes before MEDIUM and MEDIUM before LOW.
C19_ConfidenceFromLineUpToMarker ==
    Extracted =>
        /\ fields.confidence \in {"HIGH", "MEDIUM", "LOW", "Not specified"}
        /\ Contains(input_text, "DATA CONFIDENCE:") =>
               LET line == Before(AfterFirst(input_text, "DATA CONFIDENCE:"),
                                  {"\n", "DATA CONFIDENCE:"})
               IN  ConfidenceFor(line) /\ fields.confidence = LevelIn(line)
        /\ input_text = LowText => fields.confidence = "LOW"

C19_Witness ==
    /\ Extracted
    /\ Len(Split(input_text, "DATA CONFIDENCE:")) = 3
    /\ ContainsNoCase(AfterFirst(input_text, "DATA CONFIDENCE:"), "HIGH")
    /\ fields.confidence = "Not specified"

\* the texts a result can carry as its summary
SummaryTexts ==
    (ReturnValues \ {NoneVal})
        \cup {"Error generating summary: " \o Msg(e) :
                  e \in ProviderErrors \cup {"FileNotFoundError"}}
        \cup {"Critical error generating summary: " \o Msg(e) :
                  e \in {"RateLimitException", "CallbackError"}}

\* each of them with the five values extracted from it, in column order
ExtractedFrom ==
    {<<t, extract_confidence(t), extract_industry(t),
       extract_key_activities(t), extract_target_market(t),
       extract_business_model(t)>> : t \in SummaryTexts}

\* the ten columns of the row that goes with the result s
ColumnsOf(s, row) ==
    /\ Len(row) = 10
    /\ row[1] = s.company_name
    /\ row[2] = s.summary
    /\ row[3] = s.status
    /\ row[4] = s.timestamp
    /\ row[5] = s.error
    /\ <<s.summary, row[6], row[7], row[8], row[9], row[10]>> \in ExtractedFrom

\* the rows of the worksheet write_summaries was told to write to
WrittenTo ==
    IF SheetName(worksheet_name) = DefaultOutputName THEN worksheet ELSE custom[1]

\* the rows that worksheet held when write_summaries began
HeldBefore ==
    IF SheetName(worksheet_name) = DefaultOutputName THEN <<headers>> ELSE OtherRows

\* C20: when write_summaries has written, the worksheet it was told to write
\* to holds, under the rows it held before, exactly one row per result, in
\* the order of the results, each with the ten columns in their order; for
\* an empty list of results no row is written.  While the rows are being
\* built there is one per result gone through, the last built being the row
\* of the last result gone through, and a write_summaries that fails has
\* written none.
C20_OneRowPerResult ==
    /\ pc = "rows" =>
           /\ Len(rows_to_add) = row_idx - 1
           /\ row_idx > 1 => ColumnsOf(summaries[row_idx - 1], rows_to_add[row_idx - 1])
    /\ pc = "output_done" =>
           /\ Len(WrittenTo) = Len(HeldBefore) + Len(summaries)
           /\ SubSeq(WrittenTo, 1, Len(HeldBefore)) = HeldBefore
           /\ \A r \in 1..Len(summaries) :
                  ColumnsOf(summaries[r], WrittenTo[Len(HeldBefore) + r])
    /\ (pc = "output_done" /\ summaries = <<>>) => WrittenTo = HeldBefore
    /\ pc = "output_failed" =>
           /\ worksheet \in {StaleRows, <<headers>>}
           /\ custom \in {<<>>, <<OtherRows>>}

C20_Witness ==
    /\ pc = "output_done"
    /\ Len(summaries) >= 2
    /\ Len(worksheet) >= 3
    /\ worksheet[2][3] = "warning"
    /\ worksheet[3][3] = "success"
    /\ worksheet[3][6] = "HIGH"
    /\ worksheet[3][7] = "Software"

\* ----------------------------------------------------------------- main()
\* main() has returned
MainReturned == pc = "main_returned"

\* C21: on every execution path main() returns an integer exit code, 0 or 1,
\* whether the input stage yields companies or not and whether a stage
\* raises or not.
C21_ReturnsExitCode ==
    MainReturned => main_return.kind = "int" /\ main_return.code \in {0, 1}

\* C22: the cap the limiter enforces is the configured one: of the calls of
\* _make_api_call no more than rate_limit are admitted within any PERIOD
\* seconds.
C22_ConfiguredCapEnforced == Len(SelectSeq(admitted, Recent)) <= rate_limit

\* ------------------------------------------------- the order of the events
\* the place of an event in the order prompt build, provider attempts,
\* validation, result appended, progress callback, delay
Rank(ev) ==
    CASE ev = "prompt" -> 1
      [] ev = "attempt" -> 2
      [] ev = "validate" -> 3
      [] ev = "append" -> 4
      [] ev = "callback" -> 5
      [] ev = "delay" -> 6

\* event k + 1 may follow event k: a later kind of event, or one more attempt
InOrder(k) ==
    \/ Rank(events[k].ev) < Rank(events[k + 1].ev)
    \/ events[k].ev = "attempt" /\ events[k + 1].ev = "attempt"

\* C23: processing is strictly sequential: the events of a company occur in
\* the order prompt build, provider attempts, validation, result appended,
\* progress callback, 1-second delay; the callback is called with the
\* 1-based index of the company, the total and its name; and the events
\* recorded between the start of one company and the start of the next are
\* all of that one company.
C23_StrictlySequential ==
    /\ \A k \in 1..(Len(events) - 1) : InOrder(k)
    /\ \A k \in 1..Len(events) :
           /\ events[k].idx = events[1].idx
           /\ events[k].idx \in {idx - 1, idx}
           /\ events[k].ev = "callback" =>
                  /\ events[k].args[1] = events[k].idx
                  /\ events[k].args[2] = Len(company_names)
                  /\ events[k].args[3] = company_names[events[k].idx]

\* the batch goes over from one company to the next
NextCompany == pc # "idle" /\ idx' = idx + 1

\* C24: after a company's result is recorded, whatever its status, the
\* fixed 1-second delay takes place before the next company is taken up:
\* the step that goes over to the next company is the sleep of
\* CourtesyDelay seconds.
C24_DelayAfterEveryResult ==
    [][NextCompany => now' = now + CourtesyDelay /\ pc = "sleep"]_vars

\* C25: the retry budget belongs to one call. In every company's call the
\* loop variable counts the attempts of that call only (the first attempt
\* is made with attempt = 0, logged as attempt 1), a further attempt is
\* made whenever fewer than max_retries were made in this call, and the
\* call gives up only after max_retries attempts of its own, whatever
\* failed for the companies before.
C25_RetryBudgetPerCall ==
    /\ Len(attempts) > 0 => Len(attempts) <= max_retries
    /\ pc = "create" => (attempt = Len(attempts) /\ attempt < max_retries)
    /\ pc = "backoff" => (attempt + 1 = Len(attempts) /\ attempt + 1 < max_retries)
    /\ \A p \in 1..Len(calllog) :
           calllog[p].ev = "raise" => AttemptsUpTo(p) = max_retries

\* the first company needed a retry; the second company, after one failed
\* attempt of its own, is about to make its second attempt
C25_Witness ==
    /\ idx = 2
    /\ pc = "create"
    /\ max_retries = 2
    /\ Len(attempts) = 1
    /\ faults = 2
    /\ progress_callback = "none"
    /\ summaries[1].status = "success"

\* C26: for every configured max_retries, a call that returns has made a
\* successful provider attempt and returns its text; so every result with
\* status success or warning belongs to a company whose call returned the
\* text of a successful attempt.
C26_ResultNeedsSuccessfulAttempt ==
    /\ pc = "validate" =>
           /\ response # <<NoneVal>>
           /\ \E p \in 1..Len(attempts) : attempts[p].what = "ok"
    /\ \A r \in 1..Len(summaries) :
           summaries[r].status \in {"success", "warning"} =>
               origin[r].ret # <<NoneVal>>

\* the sleep the except clause of an error of kind e takes
SleepFor(e) == IF e = "RateLimitError" THEN RateLimitBackoff ELSE ErrorBackoff

\* C27: the attempts of one call are counted together whatever the kind of
\* their failures: a call never makes more than max_retries attempts; every
\* backoff sleep follows a failed attempt that was not the max_retries-th
\* and lasts what that attempt's kind of error asks for (RateLimitBackoff
\* after a rate-limit error, ErrorBackoff after any other); and what the
\* call raises is the error of its last attempt.
C27_MixedKindsShareCounter ==
    /\ Len(attempts) > 0 => Len(attempts) <= max_retries
    /\ pc = "backoff" =>
           /\ calllog[Len(calllog)] = Event("attempt", exc, 0)
           /\ sleep_for = SleepFor(exc)
           /\ Len(attempts) < max_retries
    /\ \A p \in 1..Len(calllog) :
           /\ calllog[p].ev = "sleep" =>
                  /\ p > 1
                  /\ calllog[p - 1].ev = "attempt"
                  /\ calllog[p - 1].what \in ProviderErrors
                  /\ calllog[p].secs = SleepFor(calllog[p - 1].what)
                  /\ AttemptsUpTo(p) < max_retries
           /\ calllog[p].ev = "raise" =>
                  /\ p = Len(calllog)
                  /\ p > 1
                  /\ calllog[p - 1] = Event("attempt", calllog[p].what, 0)
                  /\ AttemptsUpTo(p) = max_retries
                  /\ pc = "summary_except" => exc = calllog[p].what
           /\ (calllog[p].ev = "attempt" /\ calllog[p].what \in ProviderErrors
                  /\ p < Len(calllog)) =>
                  calllog[p + 1].ev = (IF AttemptsUpTo(p) < max_retries
                                       THEN "sleep" ELSE "raise")

\* a rate-limit error, its 60-second sleep, then an API error that is the
\* last attempt's and is the one propagated
C27_Witness ==
    /\ pc = "summary_except"
    /\ max_retries = 2
    /\ calllog = <<Event("attempt", "RateLimitError", 0),
                   Event("sleep", "sleep", RateLimitBackoff),
                   Event("attempt", "APIError", 0),
                   Event("raise", "APIError", 0)>>
    /\ exc = "APIError"

\* C28: a successful provider attempt ends the company's call: the call
\* returns at once, so the successful attempt is the last event but one of
\* the call's history with the return after it, no attempt and no backoff
\* sleep follows it, and a call has at most one successful attempt.
C28_SuccessEndsTheCall ==
    \A p \in 1..Len(calllog) :
        calllog[p] = Event("attempt", "ok", 0) =>
            /\ p + 1 = Len(calllog)
            /\ calllog[p + 1] = Event("return", "ok", 0)
            /\ \A q \in 1..(p - 1) : calllog[q].what # "ok"
            /\ pc \in {"validate", "append"}
            /\ response # <<NoneVal>>

\* the first attempt succeeded with attempts to spare, and none was made
C28_Witness ==
    /\ pc = "append"
    /\ max_retries = 2
    /\ calllog = <<Event("attempt", "ok", 0), Event("return", "ok", 0)>>
    /\ summary.status = "success"

\* C29: main() returns 0, and reports 'completed', only when the output
\* stage wrote the results and returned the worksheet's URL; when the
\* output stage failed, main() returns 1.
C29_ZeroOnlyWithoutError ==
    MainReturned =>
        ((main_return = ReturnedInt(0) \/ workflow_status = "completed") =>
             output_url # NoneVal)

\* C30: whatever worksheet_name the output stage was given, the worksheet
\* of that name is the one that was cleared and headed, the one the rows
\* were appended to and the one whose URL is returned: when the stage has
\* returned a URL, that worksheet holds the header row and under it exactly
\* one row per result, and the stage never fails because the worksheet of
\* the name given does not exist.
C30_OneTargetWorksheet ==
    /\ (pc = "output_returned" /\ output_url # NoneVal) =>
           /\ WrittenTo[1] = headers
           /\ Len(WrittenTo) = 1 + Len(summaries)
           /\ output_url = SpreadsheetUrl \o "#gid=" \o SheetName(worksheet_name)
    /\ pc = "output_failed" => exc # "WorksheetNotFound"

====
